---- MODULE Spec2Model ----
(***************************************************************************)
(* Model of the iMessage query server (src/imessage_query_server.py):      *)
(* the process-wide contacts_map cache, load_contacts_map,                 *)
(* lookup_contact_numbers, the DatabaseContext singleton and the           *)
(* get_chat_transcript tool.                                               *)
(*                                                                         *)
(* Representation.  A Python str is a sequence of one-character strings,   *)
(* so that str.lower(), the `in` substring test and phone parsing are      *)
(* computed character by character.  An Optional value is a sequence of    *)
(* length 0 (None) or 1.  A datetime is a record [day, tod]: a day number  *)
(* and a time of day (0 is midnight); a "YYYY-MM-DD" string is its day     *)
(* number.  The Contact Directory (a JSON object, an insertion-ordered     *)
(* dict once loaded) is a sequence of entries with distinct names.         *)
(***************************************************************************)
EXTENDS Integers, Sequences, FiniteSets, TLC

VARIABLES
    file,          \* contacts_map.json on disk: [kind, dir]
    contacts_map,  \* the module-level cache (line 66)
    fileReads,     \* how many times load_contacts_map opened the file
    lookups,       \* how many get_chat_transcript calls have run
    db_exists,     \* DB_PATH.exists()
    db_conn,       \* DatabaseContext._instance._db: "None" or "open"
    last,          \* what the last get_chat_transcript call did
    export         \* the exporter run (src/export_contacts.py): [rows, result, done]

vars == <<file, contacts_map, fileReads, lookups, db_exists, db_conn, last, export>>

----------------------------------------------------------------------------
(* Bounds *)

MaxCalls == 3      \* calls of get_chat_transcript in one run
MaxMsgs == 2       \* length of a fetched message history
MaxRows == 3       \* rows returned by the exporter's query
Today == 20        \* the day number of datetime.now() in the runs

----------------------------------------------------------------------------
(* Strings *)

None == <<>>
Some(x) == <<x>>

Digit == {"0", "1", "2", "3", "4", "5", "6", "7", "8", "9"}

LowerOf ==
    ("A" :> "a") @@ ("B" :> "b") @@ ("C" :> "c") @@ ("D" :> "d") @@
    ("E" :> "e") @@ ("F" :> "f") @@ ("G" :> "g") @@ ("H" :> "h") @@
    ("I" :> "i") @@ ("J" :> "j") @@ ("K" :> "k") @@ ("L" :> "l") @@
    ("M" :> "m") @@ ("N" :> "n") @@ ("O" :> "o") @@ ("P" :> "p") @@
    ("Q" :> "q") @@ ("R" :> "r") @@ ("S" :> "s") @@ ("T" :> "t") @@
    ("U" :> "u") @@ ("V" :> "v") @@ ("W" :> "w") @@ ("X" :> "x") @@
    ("Y" :> "y") @@ ("Z" :> "z")

\* str.lower()
Lower(s) ==
    [i \in 1..Len(s) |-> IF s[i] \in DOMAIN LowerOf THEN LowerOf[s[i]] ELSE s[i]]

\* `sub in s` on str
Contains(s, sub) ==
    \E k \in 0..(Len(s) - Len(sub)) :
        \A i \in 1..Len(sub) : s[k + i] = sub[i]

----------------------------------------------------------------------------
(* phonenumbers, default region "US".  The library is outside the          *)
(* repository; it is modelled for the North American numbering plan only   *)
(* (every number of the model carries country code 1): parse keeps the     *)
(* digits from the first '+' or digit on, strips the country code after a  *)
(* '+' and the leading 1 of an 11-digit national string; a number is valid *)
(* when its national number is NXX NXX XXXX with N in 2..9; E.164 is '+',  *)
(* the country code and the national number.                               *)

IsStartChar(c) == c = "+" \/ c \in Digit

\* phonenumbers.parse(s, "US"): [ok |-> FALSE] stands for NumberParseException
parse(s) ==
    LET starts == {i \in 1..Len(s) : IsStartChar(s[i])}
    IN  IF starts = {}
        THEN [ok |-> FALSE, cc |-> <<>>, nsn |-> <<>>]
        ELSE
          LET st   == CHOOSE i \in starts : \A j \in starts : i <= j
              plus == s[st] = "+"
              ds   == SelectSeq(SubSeq(s, st, Len(s)), LAMBDA c : c \in Digit)
              cc   == IF plus /\ Len(ds) > 0 THEN <<ds[1]>> ELSE <<"1">>
              nsn  == IF plus /\ Len(ds) > 0 THEN Tail(ds)
                      ELSE IF Len(ds) = 11 /\ ds[1] = "1" THEN Tail(ds)
                      ELSE ds
          IN  IF Len(nsn) < 2
              THEN [ok |-> FALSE, cc |-> <<>>, nsn |-> <<>>]
              ELSE [ok |-> TRUE, cc |-> cc, nsn |-> nsn]

\* phonenumbers.is_valid_number(parsed)
is_valid_number(p) ==
    /\ p.cc = <<"1">>
    /\ Len(p.nsn) = 10
    /\ p.nsn[1] \notin {"0", "1"}
    /\ p.nsn[4] \notin {"0", "1"}

\* phonenumbers.format_number(parsed, PhoneNumberFormat.E164)
format_number(p) == <<"+">> \o p.cc \o p.nsn

----------------------------------------------------------------------------
(* The display names, phone strings and contact inputs of the runs *)

nJanetRoe == <<"J", "a", "n", "e", "t", " ", "R", "o", "e">>
nJaneDoe  == <<"J", "a", "n", "e", " ", "D", "o", "e">>
nJane     == <<"J", "a", "n", "e">>
nBob      == <<"B", "o", "b">>
nFax      == <<"F", "a", "x", " ", "2", "1", "2", "5", "5", "5", "0", "1", "0", "0">>
nPager    == <<"P", "a", "g", "e", "r", " ", "2", "1", "2", "5", "5", "5", "0", "1", "0", "0">>

pJaneDoe1 == <<"(", "2", "1", "2", ")", " ", "5", "5", "5", "-", "0", "1", "0", "0">>
pJaneDoe2 == <<"+", "1", "2", "1", "2", "5", "5", "5", "0", "1", "9", "9">>
pJane     == <<"6", "4", "6", "-", "5", "5", "5", "-", "0", "1", "2", "3">>
pBobShort == <<"5", "5", "5", "-", "0", "1", "0", "0">>
pBob2     == <<"+", "1", "3", "1", "2", "5", "5", "5", "0", "1", "2", "2">>
pPager    == <<"+", "1", "3", "1", "2", "5", "5", "5", "0", "1", "1", "1">>

cJaneLower == <<"j", "a", "n", "e">>
cPagerLower == <<"p", "a", "g", "e", "r">>
cNobody   == <<"n", "o", "b", "o", "d", "y">>
cShort    == <<"9", "1", "1">>
cRawPlus  == <<"+", "1", " ", "2", "1", "2", "-", "5", "5", "5", "-", "0", "1", "0", "0">>
cRawDigits == <<"2", "1", "2", "5", "5", "5", "0", "1", "0", "0">>

eJanet == <<"j", "a", "n", "e", "t", "@", "e", "x", "a", "m", "p", "l", "e", ".", "c", "o", "m">>

Entry(n, ph, em) == [name |-> n, phones |-> ph, emails |-> em]

\* An email-only entry precedes two entries with phones whose names contain
\* "Jane"; the key "Jane" comes after a name that contains it; Bob's first
\* phone is not a valid number; the last display name contains a phone number.
DirFriends ==
    << Entry(nJanetRoe, <<>>, <<eJanet>>),
       Entry(nJaneDoe, <<pJaneDoe1, pJaneDoe2>>, <<>>),
       Entry(nJane, <<pJane>>, <<>>),
       Entry(nBob, <<pBobShort, pBob2>>, <<>>),
       Entry(nPager, <<pPager>>, <<>>) >>

\* An email-only entry and an entry with a phone, both with a display name
\* that contains the same phone number
DirFaxPager ==
    << Entry(nFax, <<>>, <<eJanet>>), Entry(nPager, <<pPager>>, <<>>) >>

DirEmpty == <<>>

Directories == {DirEmpty, DirFriends, DirFaxPager}

Absent == [kind |-> "absent", dir |-> <<>>]
Malformed == [kind |-> "malformed", dir |-> <<>>]
Valid(d) == [kind |-> "valid", dir |-> d]

FileStates == {Absent, Malformed} \cup {Valid(d) : d \in Directories}

Contacts ==
    {nJane, nJaneDoe, nJanetRoe, nBob, cJaneLower, cPagerLower, cNobody,
     cShort, cRawPlus, cRawDigits}

----------------------------------------------------------------------------
(* load_contacts_map and lookup_contact_numbers *)

\* Variant: the except clause re-raises, as the copy in
\* src/test_imessage_query.py does (line 39)
MutantLoadReraises(f, cm) ==
    [map |-> IF f.kind = "valid" THEN f.dir ELSE cm,
     opened |-> f.kind # "absent",
     raised |-> f.kind = "malformed"]

\* load_contacts_map (lines 68-79): the new value of the global, whether the
\* file was opened, and whether an exception leaves the function.  A missing
\* file is logged (line 77); a malformed or unreadable one raises inside the
\* try before the assignment and the except clause logs it (lines 78-79):
\* both leave the global as it was.
load_contacts_map(f, cm) ==
    [map |-> IF f.kind = "valid" THEN f.dir ELSE cm,
     opened |-> f.kind # "absent",
     raised |-> FALSE]

\* Variant: the lazy load without its emptiness guard
MutantNeedsLoadAlways(cm) == TRUE

\* `if not contacts_map` (line 145)
NeedsLoad(cm) == cm = <<>>

First(S) == CHOOSE i \in S : \A j \in S : i <= j

\* The result of lookup_contact_numbers: [found |-> FALSE] is None
NotFound == [found |-> FALSE, phones |-> <<>>]
Found(ph) == [found |-> TRUE, phones |-> ph]

\* Variant: the exact-key test left out
MutantLookupSubstringOnly(cm, contact_name) ==
    LET part == {i \in 1..Len(cm) : Contains(Lower(cm[i].name), Lower(contact_name))}
    IN  IF part # {} THEN Found(cm[First(part)].phones) ELSE NotFound

\* Variant: both steps pass over entries without phones
MutantLookupSkipsEmpty(cm, contact_name) ==
    LET exact == {i \in 1..Len(cm) : cm[i].name = contact_name /\ cm[i].phones # <<>>}
        part  == {i \in 1..Len(cm) :
                     /\ Contains(Lower(cm[i].name), Lower(contact_name))
                     /\ cm[i].phones # <<>>}
    IN  IF exact # {} THEN Found(cm[First(exact)].phones)
        ELSE IF part # {} THEN Found(cm[First(part)].phones)
        ELSE NotFound

\* lookup_contact_numbers after its lazy load (lines 148-158), on the loaded
\* dict cm: the exact key first, then the first name, in the dict's order,
\* that contains the input case-insensitively; either returns the entry's
\* phones list whatever its length.
lookup_contact_numbers(cm, contact_name) ==
    LET exact == {i \in 1..Len(cm) : cm[i].name = contact_name}
        part  == {i \in 1..Len(cm) : Contains(Lower(cm[i].name), Lower(contact_name))}
    IN  IF exact # {} THEN Found(cm[First(exact)].phones)
        ELSE IF part # {} THEN Found(cm[First(part)].phones)
        ELSE NotFound

----------------------------------------------------------------------------
(* Resolution and normalization in get_chat_transcript (lines 170-199) *)

\* Variant: the first number that validates, as the comment of line 188 words it
MutantPickFirstValid(contact_numbers) ==
    LET good == {i \in 1..Len(contact_numbers) :
                    parse(contact_numbers[i]).ok
                    /\ is_valid_number(parse(contact_numbers[i]))}
    IN  IF good # {} THEN contact_numbers[First(good)] ELSE contact_numbers[1]

\* `phone_number = contact_numbers[0]` (line 189)
PickNumber(contact_numbers) == contact_numbers[1]

Resolved(outcome, source, candidate, identifier, events) ==
    [outcome |-> outcome, source |-> source, candidate |-> candidate,
     identifier |-> identifier, events |-> events]

\* Lines 171-199 on the loaded dict cm: the outcome ("ok" or the error
\* raised), where the number came from, the string handed to the second
\* parse (phone_number of line 189), the E.164 identifier, and the steps run.
ResolveNumber(cm, contact) ==
    LET r       == lookup_contact_numbers(cm, contact)
        fromDir == r.found /\ r.phones # <<>>
        raw     == parse(contact)
    IN  IF ~fromDir /\ ~raw.ok
        THEN Resolved("ContactNotFound", "none", <<>>, <<>>, <<"lookup", "parse_input">>)
        ELSE IF ~fromDir /\ ~is_valid_number(raw)
        THEN Resolved("ContactNotFound", "none", <<>>, <<>>, <<"lookup", "parse_input">>)
        ELSE
          LET contact_numbers == IF fromDir THEN r.phones ELSE <<format_number(raw)>>
              source       == IF fromDir THEN "directory" ELSE "raw"
              steps        == IF fromDir THEN <<"lookup">> ELSE <<"lookup", "parse_input">>
              phone_number == PickNumber(contact_numbers)
              parsed       == parse(phone_number)
          IN  IF ~parsed.ok \/ ~is_valid_number(parsed)
              THEN Resolved("InvalidPhoneNumber", source, phone_number, <<>>,
                            Append(steps, "normalize"))
              ELSE Resolved("ok", source, phone_number, format_number(parsed),
                            Append(steps, "normalize"))

\* Variant: the existence test skipped once a connection is cached
MutantStoreCheckOnlyFirst(exists, conn) == exists \/ conn = "open"

\* `if not DB_PATH.exists(): raise FileNotFoundError` (lines 201-202)
StoreCheckPasses(exists, conn) == exists

\* DatabaseContext.get_connection (lines 263-267)
get_connection(conn) == IF conn = "None" THEN "open" ELSE conn

----------------------------------------------------------------------------
(* Dates (lines 210-230) *)

DefaultDays == 7

DateTime(d, t) == [day |-> d, tod |-> t]

\* a < b on datetime
Before(a, b) == a.day < b.day \/ (a.day = b.day /\ a.tod < b.tod)

\* datetime.strptime(msg.date[:10], "%Y-%m-%d") (line 220): the leading ten
\* characters of the timestamp are its calendar date, parsed at midnight
strptime10(ts) == DateTime(ts.day, 0)

\* datetime.fromisoformat of a "YYYY-MM-DD" string (lines 223, 228)
fromisoformat(d) == DateTime(d, 0)

\* dt.strftime("%Y-%m-%d") (lines 214-215)
strftime(dt) == dt.day

\* Lines 211-215: the default window, when both bounds are falsy
DefaultWindow(start_date, end_date, now) ==
    IF start_date = None /\ end_date = None
    THEN [start |-> Some(strftime(DateTime(now.day - DefaultDays, now.tod))),
          end |-> Some(strftime(now))]
    ELSE [start |-> start_date, end |-> end_date]

\* Variant: `<=` for `<` at the start bound
MutantRetainedExclusive(msg, w) ==
    LET msg_date == strptime10(msg.date)
    IN  /\ ~(w.start # None /\ ~Before(fromisoformat(w.start[1]), msg_date))
        /\ ~(w.end # None /\ Before(fromisoformat(w.end[1]), msg_date))

\* Lines 220-230: the message is not skipped by either `continue`
Retained(msg, w) ==
    LET msg_date == strptime10(msg.date)
    IN  /\ ~(w.start # None /\ Before(msg_date, fromisoformat(w.start[1])))
        /\ ~(w.end # None /\ Before(fromisoformat(w.end[1]), msg_date))

----------------------------------------------------------------------------
(* Shaping (lines 232-245) *)

\* `att.f if hasattr(att, 'f') else default`
AttrOr(att, f, default) == IF f \in DOMAIN att THEN att[f] ELSE default

\* Lines 238-243
ShapeAttachment(att) ==
    [mime_type  |-> AttrOr(att, "mime_type", None),
     filename   |-> AttrOr(att, "filename", None),
     file_path  |-> AttrOr(att, "original_path", None),
     is_missing |-> AttrOr(att, "missing", <<FALSE>>)[1]]

\* bool(x) of an Optional list: None and [] are falsy
Truthy(optList) == optList # None /\ optList[1] # <<>>

\* Variant: the date cut to msg.date[:10]
MutantShapeKeepsDay(msg) ==
    [text            |-> IF msg.text # None /\ msg.text[1] # "" THEN msg.text[1] ELSE "",
     date            |-> DateTime(msg.date.day, 0),
     is_from_me      |-> msg.is_from_me,
     has_attachments |-> Truthy(msg.attachments),
     attachments     |-> IF Truthy(msg.attachments)
                         THEN [i \in 1..Len(msg.attachments[1]) |->
                                  ShapeAttachment(msg.attachments[1][i])]
                         ELSE <<>>]

\* Lines 232-245: the record appended for a retained message
ShapeRecord(msg) ==
    [text            |-> IF msg.text # None /\ msg.text[1] # "" THEN msg.text[1] ELSE "",
     date            |-> msg.date,
     is_from_me      |-> msg.is_from_me,
     has_attachments |-> Truthy(msg.attachments),
     attachments     |-> IF Truthy(msg.attachments)
                         THEN [i \in 1..Len(msg.attachments[1]) |->
                                  ShapeAttachment(msg.attachments[1][i])]
                         ELSE <<>>]

RECURSIVE FilterLoop(_, _)
\* The loop of lines 218-245 over messages.message_list
FilterLoop(message_list, w) ==
    IF message_list = <<>> THEN <<>>
    ELSE IF Retained(Head(message_list), w)
         THEN <<ShapeRecord(Head(message_list))>> \o FilterLoop(Tail(message_list), w)
         ELSE FilterLoop(Tail(message_list), w)

----------------------------------------------------------------------------
(* The messages of the runs *)

attFull ==
    [mime_type |-> <<"image/png">>, filename |-> <<"a.png">>,
     original_path |-> <<"/p/a.png">>, missing |-> <<TRUE>>]
attBare == [filename |-> <<"b.txt">>]

Msg(text, day, tod, me, atts) ==
    [text |-> text, date |-> DateTime(day, tod), is_from_me |-> me, attachments |-> atts]

MsgPool ==
    { Msg(Some("a"), Today - DefaultDays - 1, 1, FALSE, Some(<<>>)),
      Msg(None, Today - DefaultDays, 1, TRUE, None),
      Msg(Some(""), Today - DefaultDays + 1, 0, FALSE, Some(<<attFull>>)),
      Msg(Some("mid"), Today - 3, 1, TRUE, None),
      Msg(Some("hi"), Today, 1, FALSE, Some(<<attBare, attFull>>)),
      Msg(Some("x"), Today + 1, 0, TRUE, Some(<<>>)) }

RECURSIVE SeqsUpTo(_, _)
SeqsUpTo(S, n) ==
    IF n = 0 THEN {<<>>}
    ELSE SeqsUpTo(S, n - 1) \cup
         {Append(q, x) : q \in {r \in SeqsUpTo(S, n - 1) : Len(r) = n - 1}, x \in S}

Histories == SeqsUpTo(MsgPool, MaxMsgs)

DateInputs ==
    {None} \cup {Some(d) : d \in {Today - DefaultDays - 1, Today - DefaultDays,
                                  Today - DefaultDays + 1, Today, Today + 1}}

Nows == {DateTime(Today, 0), DateTime(Today, 1)}

----------------------------------------------------------------------------
(* The exporter, src/export_contacts.py: get_contacts over the rows        *)
(* (ZFIRSTNAME, ZLASTNAME, ZFULLNUMBER, ZADDRESS) of its query.  A column  *)
(* is an Optional str: None is SQL NULL.                                   *)

\* `x or ""` (lines 50-51)
OrEmpty(opt) == IF opt = None THEN <<>> ELSE opt[1]

\* str.strip(): the text between the first and the last non-space character
strip(str) ==
    LET solid == {i \in 1..Len(str) : str[i] # " "}
    IN  IF solid = {} THEN <<>>
        ELSE SubSeq(str, First(solid), CHOOSE i \in solid : \A j \in solid : j <= i)

\* f"{first_name} {last_name}".strip() (lines 50-56)
FullName(row) == strip(OrEmpty(row.first) \o <<" ">> \o OrEmpty(row.last))

\* `x in list`
Member(list, x) == \E i \in 1..Len(list) : list[i] = x

\* A non-NULL, non-empty column
Given(opt) == opt # None /\ opt[1] # <<>>

\* Lines 68-69
AddPhone(phones, phone) ==
    IF Given(phone) /\ ~Member(phones, phone[1]) THEN Append(phones, phone[1])
    ELSE phones

\* Variant: the membership test on the address as stored, not lower-cased
MutantAddEmailRawTest(emails, email) ==
    IF Given(email) /\ ~Member(emails, email[1]) THEN Append(emails, Lower(email[1]))
    ELSE emails

\* Lines 72-73
AddEmail(emails, email) ==
    IF Given(email) /\ ~Member(emails, Lower(email[1]))
    THEN Append(emails, Lower(email[1]))
    ELSE emails

\* The body of the loop (lines 50-73) on the dict built so far
ProcessRow(cm, row) ==
    LET name == FullName(row)
    IN  IF name = <<>> THEN cm
        ELSE
          LET known == \E i \in 1..Len(cm) : cm[i].name = name
              cm1   == IF known THEN cm ELSE Append(cm, Entry(name, <<>>, <<>>))
              k     == CHOOSE i \in 1..Len(cm1) : cm1[i].name = name
          IN  [cm1 EXCEPT ![k] = Entry(name,
                                       AddPhone(cm1[k].phones, row.phone),
                                       AddEmail(cm1[k].emails, row.email))]

RECURSIVE ProcessRows(_, _)
\* The loop of lines 49-73
ProcessRows(cm, rows) ==
    IF rows = <<>> THEN cm
    ELSE ProcessRows(ProcessRow(cm, Head(rows)), Tail(rows))

\* Lines 76-77
RemoveEmpty(cm) == SelectSeq(cm, LAMBDA e : e.phones # <<>> \/ e.emails # <<>>)

\* get_contacts (lines 23-80) on the rows fetched at line 46
get_contacts(rows) == RemoveEmpty(ProcessRows(<<>>, rows))

nAnn == <<"A", "n", "n">>
nBo == <<"B", "o">>
nLee == <<"L", "e", "e">>
pOne == <<"5", "5", "5", "-", "1">>
pTwo == <<"5", "5", "5", "-", "2">>
eAnnUpper == <<"A", "n", "n", "@", "X", ".", "i", "o">>
eAnnLower == <<"a", "n", "n", "@", "x", ".", "i", "o">>
eBo == <<"b", "o", "@", "x", ".", "i", "o">>

Row(first_name, last_name, phone, email) ==
    [first |-> first_name, last |-> last_name, phone |-> phone, email |-> email]

\* The rows of the runs.  The LEFT JOINs give one row per phone and email of
\* a record, so a phone or an address comes back on several rows; two rows
\* differ in the case of an address; one record has neither phone nor
\* address; one has a blank name; one name is stored as a last name on one
\* row and as a first name on another; one phone is the empty string.
RowPool ==
    { Row(Some(nAnn), None, Some(pOne), Some(eAnnUpper)),
      Row(Some(nAnn), None, Some(pTwo), Some(eAnnLower)),
      Row(Some(nAnn), None, Some(pOne), None),
      Row(None, Some(nBo), None, None),
      Row(Some(<<" ">>), None, Some(pOne), Some(eBo)),
      Row(Some(nBo), Some(<<>>), Some(<<>>), Some(eBo)),
      Row(Some(nAnn), Some(nLee), Some(pTwo), None) }

RowLists == SeqsUpTo(RowPool, MaxRows)

NotExported == [rows |-> <<>>, result |-> <<>>, done |-> FALSE]

----------------------------------------------------------------------------
(* State *)

NoCall ==
    [contact |-> <<>>, start_date |-> None, end_date |-> None,
     now |-> DateTime(Today, 0), history |-> <<>>,
     fileAtCall |-> "absent",
     existedAtCall |-> FALSE, connBefore |-> "None",
     outcome |-> "none", source |-> "none", candidate |-> <<>>,
     identifier |-> <<>>, events |-> <<>>, messages |-> <<>>, total_count |-> 0]

\* Module import (lines 66, 103-107): the cache starts empty and
\* load_contacts_map runs once, whatever the file is then.
Init ==
    /\ file \in FileStates
    /\ contacts_map = load_contacts_map(file, <<>>).map
    /\ fileReads = IF load_contacts_map(file, <<>>).opened THEN 1 ELSE 0
    /\ lookups = 0
    /\ db_exists \in BOOLEAN
    /\ db_conn = "None"
    /\ last = NoCall
    /\ export = NotExported

\* get_chat_transcript (lines 162-250), with the lazy load of
\* lookup_contact_numbers (lines 145-146) and the connection of
\* MessageDBConnection.__enter__ (lines 275-277)
get_chat_transcript(contact, start_date, end_date, now, history) ==
    /\ lookups < MaxCalls
    /\ LET loading == NeedsLoad(contacts_map)
           ld      == load_contacts_map(file, contacts_map)
           cm      == IF loading THEN ld.map ELSE contacts_map
           res     == IF loading /\ ld.raised
                      THEN Resolved("DirectoryLoadFailure", "none", <<>>, <<>>, <<>>)
                      ELSE ResolveNumber(cm, contact)
           checked == res.outcome = "ok"
           passes  == checked /\ StoreCheckPasses(db_exists, db_conn)
           outcome == IF checked /\ ~passes THEN "StoreUnavailable" ELSE res.outcome
           events  == IF ~checked THEN res.events
                      ELSE IF ~passes THEN Append(res.events, "store_check")
                      ELSE res.events \o <<"store_check", "connect", "fetch", "filter">>
           w       == DefaultWindow(start_date, end_date, now)
           out     == IF passes THEN FilterLoop(history, w) ELSE <<>>
       IN  /\ contacts_map' = cm
           /\ fileReads' = IF loading /\ ld.opened THEN fileReads + 1 ELSE fileReads
           /\ lookups' = lookups + 1
           /\ db_conn' = IF passes THEN get_connection(db_conn) ELSE db_conn
           /\ last' = [contact |-> contact, start_date |-> start_date,
                       end_date |-> end_date, now |-> now,
                       history |-> IF passes THEN history ELSE <<>>,
                       fileAtCall |-> file.kind, existedAtCall |-> db_exists,
                       connBefore |-> db_conn,
                       outcome |-> outcome, source |-> res.source,
                       candidate |-> res.candidate,
                       identifier |-> IF passes THEN res.identifier ELSE <<>>,
                       events |-> events, messages |-> out,
                       total_count |-> Len(out)]
           /\ UNCHANGED <<file, db_exists, export>>

\* The environment rewrites, removes or corrupts contacts_map.json
FileChanges ==
    /\ \E f \in FileStates : f # file /\ file' = f
    /\ UNCHANGED <<contacts_map, fileReads, lookups, db_exists, db_conn, last, export>>

\* The environment creates or removes the message store at DB_PATH
StoreChanges ==
    /\ db_exists' = ~db_exists
    /\ UNCHANGED <<file, contacts_map, fileReads, lookups, db_conn, last, export>>

\* Calls with every contact input, the default window and one history
CallAnyContact ==
    \E contact \in Contacts :
        get_chat_transcript(contact, None, None, DateTime(Today, 1),
                            <<Msg(Some("hi"), Today, 1, FALSE, None)>>)

Next == CallAnyContact \/ FileChanges \/ StoreChanges

Spec == Init /\ [][Next]_vars

\* The first call after import, for one directory contact, with every window,
\* clock and history
InitTranscript ==
    /\ file = Valid(DirFriends)
    /\ contacts_map = DirFriends
    /\ fileReads = 1
    /\ lookups = 0
    /\ db_exists = TRUE
    /\ db_conn = "None"
    /\ last = NoCall
    /\ export = NotExported

CallAnyWindow ==
    /\ lookups = 0
    /\ \E start_date \in DateInputs, end_date \in DateInputs, now \in Nows,
          history \in Histories :
           get_chat_transcript(nJaneDoe, start_date, end_date, now, history)

NextTranscript == CallAnyWindow

SpecTranscript == InitTranscript /\ [][NextTranscript]_vars

\* The exporter run on its own: the query returns any list of rows
InitExport ==
    /\ file = Absent
    /\ contacts_map = <<>>
    /\ fileReads = 0
    /\ lookups = 0
    /\ db_exists = FALSE
    /\ db_conn = "None"
    /\ last = NoCall
    /\ export \in {[rows |-> r, result |-> <<>>, done |-> FALSE] : r \in RowLists}

\* main() of src/export_contacts.py: get_contacts, then the dump of its result
ExportContacts ==
    /\ ~export.done
    /\ export' = [rows |-> export.rows, result |-> get_contacts(export.rows),
                  done |-> TRUE]
    /\ UNCHANGED <<file, contacts_map, fileReads, lookups, db_exists, db_conn, last>>

NextExport == ExportContacts

SpecExport == InitExport /\ [][NextExport]_vars


----------------------------------------------------------------------------
(* Vocabulary of the properties.  After a call, contacts_map is the        *)
(* directory that call looked the contact up in: only calls assign it.     *)

Called == last.outcome # "none"
Fetched == \E i \in 1..Len(last.events) : last.events[i] = "fetch"
Position(ev) == First({i \in 1..Len(last.events) : last.events[i] = ev})
Did(ev) == \E i \in 1..Len(last.events) : last.events[i] = ev

KeysEqual(cm, c) == {i \in 1..Len(cm) : cm[i].name = c}
NamesContaining(cm, c) == {i \in 1..Len(cm) : Contains(Lower(cm[i].name), Lower(c))}
HasPhones(cm, i) == cm[i].phones # <<>>

\* A phone string that parses and validates
ValidPhone(str) == parse(str).ok /\ is_valid_number(parse(str))

\* '+' and then one to fifteen digits, the first not 0
IsE164(str) ==
    /\ Len(str) \in 2..16
    /\ str[1] = "+"
    /\ str[2] # "0"
    /\ \A i \in 2..Len(str) : str[i] \in Digit

\* C1: a contact equal to a directory key whose phone list is non-empty is
\* resolved to the first phone of that entry, wherever the entry stands and
\* whatever other display names contain the contact.
C1_ExactKeyFirstPhone ==
    Called =>
        \A i \in KeysEqual(contacts_map, last.contact) :
            HasPhones(contacts_map, i) =>
                /\ last.source = "directory"
                /\ last.candidate = contacts_map[i].phones[1]

\* "Jane" is the third key, after "Janet Roe" and "Jane Doe", which contain it
C1_Witness ==
    /\ last.contact = nJane
    /\ contacts_map = DirFriends
    /\ last.outcome = "ok"
    /\ last.candidate = pJane
    /\ last.identifier = <<"+", "1", "6", "4", "6", "5", "5", "5", "0", "1", "2", "3">>

\* C2: when the exact step yields no phone, the first entry in stored order
\* whose name contains the contact case-insensitively and that has a phone
\* is chosen, and its first phone taken; email-only entries are skipped.
C2_SubstringSkipsEmailOnly ==
    Called =>
        LET exactOk == \E i \in KeysEqual(contacts_map, last.contact) :
                           HasPhones(contacts_map, i)
            withPhones == {i \in NamesContaining(contacts_map, last.contact) :
                              HasPhones(contacts_map, i)}
        IN  (~exactOk /\ withPhones # {}) =>
                /\ last.source = "directory"
                /\ last.candidate = contacts_map[First(withPhones)].phones[1]

\* C3 as stated: a valid phone number that is no directory key goes to the
\* raw-phone fallback whatever the display names are.
C3_RawFallbackWhateverTheNames ==
    Called =>
        ((ValidPhone(last.contact) /\ KeysEqual(contacts_map, last.contact) = {}) =>
            /\ last.source = "raw"
            /\ last.outcome \in {"ok", "StoreUnavailable"}
            /\ Fetched => last.identifier = format_number(parse(last.contact)))

\* C3, amended: the substring scan runs before the fallback.  A valid phone
\* number that is no directory key goes to the raw-phone fallback, and to the
\* canonical form of the input, exactly when the first display name that
\* contains it, if there is one, has no phones; otherwise that entry's first
\* phone is the one used.
C3_RawFallbackAfterSubstringScan ==
    Called =>
        LET isKey == KeysEqual(contacts_map, last.contact) # {}
        IN  (ValidPhone(last.contact) /\ ~isKey) =>
            LET part == NamesContaining(contacts_map, last.contact)
            IN  IF part # {} /\ HasPhones(contacts_map, First(part))
                THEN /\ last.source = "directory"
                     /\ last.candidate = contacts_map[First(part)].phones[1]
                ELSE /\ last.source = "raw"
                     /\ last.outcome \in {"ok", "StoreUnavailable"}
                     /\ Fetched => /\ last.identifier = format_number(parse(last.contact))
                                   /\ IsE164(last.identifier)

\* "+1 212-555-0100" is fetched as "+12125550100" with a non-empty directory
C3_Witness ==
    /\ last.contact = cRawPlus
    /\ contacts_map = DirFriends
    /\ last.source = "raw"
    /\ Fetched
    /\ last.identifier = <<"+", "1", "2", "1", "2", "5", "5", "5", "0", "1", "0", "0">>

\* The entry the directory steps settle on: the exact key, else the first
\* name containing the contact; and the single candidate of the call
ResolvedEntry(cm, c) ==
    IF KeysEqual(cm, c) # {} THEN Some(First(KeysEqual(cm, c)))
    ELSE IF NamesContaining(cm, c) # {} THEN Some(First(NamesContaining(cm, c)))
    ELSE None

HasDirectoryPhone(cm, c) ==
    ResolvedEntry(cm, c) # None /\ HasPhones(cm, ResolvedEntry(cm, c)[1])

SingleCandidate(cm, c) ==
    IF HasDirectoryPhone(cm, c) THEN cm[ResolvedEntry(cm, c)[1]].phones[1] ELSE c

\* What C4 says whatever the error: the identifier fetched with is in E.164
\* form and is the normalization of the single candidate, and a candidate
\* that does not normalize ends the call with the error given, no fetch made.
SingleCandidateOr(errorOfDirectory, errorOfRaw) ==
    Called =>
        LET cand == SingleCandidate(contacts_map, last.contact)
        IN  /\ Fetched => /\ ValidPhone(cand)
                          /\ IsE164(last.identifier)
                          /\ last.identifier = format_number(parse(cand))
            /\ ~ValidPhone(cand) =>
                  /\ ~Fetched
                  /\ last.outcome =
                        IF HasDirectoryPhone(contacts_map, last.contact)
                        THEN errorOfDirectory ELSE errorOfRaw

\* C4 as stated: the failing candidate always gives an invalid-phone-number
\* error.
C4_InvalidCandidateIsInvalidPhoneNumber ==
    SingleCandidateOr("InvalidPhoneNumber", "InvalidPhoneNumber")

\* C4, amended: a directory phone that does not normalize gives the
\* invalid-phone-number error; a raw contact input that does not normalize
\* gives the contact-not-found error.
C4_SingleCandidateNoFallback ==
    SingleCandidateOr("InvalidPhoneNumber", "ContactNotFound")

\* Bob's first phone is invalid and his second valid: the call fails
C4_Witness ==
    /\ last.contact = nBob
    /\ contacts_map = DirFriends
    /\ last.candidate = pBobShort
    /\ ValidPhone(pBob2)
    /\ last.outcome = "InvalidPhoneNumber"
    /\ ~Fetched

\* C5: in every call of a run a fetch comes only after the lookup, the
\* successful normalization and the passed store check of that call; a call
\* that fails makes no fetch; contact and number errors win over a missing
\* store.
C5_FetchOnlyAfterChecks ==
    Called =>
        /\ Fetched =>
              /\ last.outcome = "ok"
              /\ last.existedAtCall
              /\ ValidPhone(last.candidate)
              /\ Did("lookup") /\ Did("normalize") /\ Did("store_check")
              /\ Position("lookup") < Position("normalize")
              /\ Position("normalize") < Position("store_check")
              /\ Position("store_check") < Position("fetch")
        /\ last.outcome # "ok" =>
              /\ ~Fetched
              /\ last.outcome \in {"ContactNotFound", "InvalidPhoneNumber", "StoreUnavailable"}
        /\ ~last.existedAtCall => ~Fetched
        /\ last.outcome = "StoreUnavailable" =>
              /\ ~last.existedAtCall
              /\ ValidPhone(SingleCandidate(contacts_map, last.contact))
        /\ ~ValidPhone(SingleCandidate(contacts_map, last.contact)) =>
              /\ last.outcome \in {"ContactNotFound", "InvalidPhoneNumber"}
              /\ ~Did("store_check")

\* A call after an earlier one opened the connection, the store now missing
C5_Witness ==
    /\ last.connBefore = "open"
    /\ ~last.existedAtCall
    /\ last.outcome = "StoreUnavailable"
    /\ ~Fetched

----------------------------------------------------------------------------
(* The date window and the shaping, checked under SpecTranscript *)

Ok == last.outcome = "ok"

\* The calendar day of a timestamp: its leading ten characters
DayOf(ts) == ts.day

InWindow(m, start_date, end_date) ==
    /\ start_date # None => DayOf(m.date) >= start_date[1]
    /\ end_date # None => DayOf(m.date) <= end_date[1]

Dates(msgs) == [i \in 1..Len(msgs) |-> msgs[i].date]

\* C6: with at least one bound given, the result holds exactly the messages
\* whose calendar day is >= start_date (when set) and <= end_date (when
\* set), both inclusive, the other side unbounded; and the filter keeps
\* every message of its own output.
C6_InclusiveWindow ==
    (Ok /\ (last.start_date # None \/ last.end_date # None)) =>
        LET kept == SelectSeq(last.history,
                              LAMBDA m : InWindow(m, last.start_date, last.end_date))
            w    == [start |-> last.start_date, end |-> last.end_date]
        IN  /\ Dates(last.messages) = Dates(kept)
            /\ \A i \in 1..Len(last.messages) : Retained(last.messages[i], w)

\* Only start_date is given: the message dated on it is kept, the one of the
\* day before is dropped
C6_Witness ==
    /\ Ok
    /\ last.start_date = Some(Today - DefaultDays)
    /\ last.end_date = None
    /\ Len(last.history) = 2
    /\ DayOf(last.history[1].date) = Today - DefaultDays - 1
    /\ DayOf(last.history[2].date) = Today - DefaultDays
    /\ Dates(last.messages) = <<last.history[2].date>>

\* C7: with both bounds omitted the days whose messages are kept are exactly
\* the 7 days that end today.
C7_DefaultWindowIsSevenDays ==
    (Ok /\ last.start_date = None /\ last.end_date = None) =>
        \A i \in 1..Len(last.history) :
            (\E j \in 1..Len(last.messages) : last.messages[j].date = last.history[i].date)
            <=> DayOf(last.history[i].date) \in
                    (DayOf(last.now) - (DefaultDays - 1))..DayOf(last.now)

\* C8: one record per retained message, in the provider's order, with the
\* provider's timestamp, "" for an absent text, has_attachments exactly when
\* the record's attachments list is non-empty, and total_count the length.
C8_ShapeOnePerRetained ==
    Ok =>
        LET w    == DefaultWindow(last.start_date, last.end_date, last.now)
            kept == SelectSeq(last.history, LAMBDA m : Retained(m, w))
        IN  /\ Len(last.messages) = Len(kept)
            /\ last.total_count = Len(last.messages)
            /\ \A i \in 1..Len(kept) :
                  /\ last.messages[i].date = kept[i].date
                  /\ last.messages[i].is_from_me = kept[i].is_from_me
                  /\ kept[i].text = None => last.messages[i].text = ""
                  /\ kept[i].text # None => last.messages[i].text = kept[i].text[1]
                  /\ last.messages[i].has_attachments
                        <=> last.messages[i].attachments # <<>>
                  /\ Len(last.messages[i].attachments) =
                        IF kept[i].attachments = None THEN 0
                        ELSE Len(kept[i].attachments[1])

\* Two records, the later message first as the provider gave them: one with
\* two attachments, one whose text was absent
C8_Witness ==
    /\ Ok
    /\ last.total_count = 2
    /\ Len(last.history) = 2
    /\ DayOf(last.messages[1].date) > DayOf(last.messages[2].date)
    /\ last.messages[1].has_attachments
    /\ Len(last.messages[1].attachments) = 2
    /\ last.history[2].text = None
    /\ last.messages[2].text = ""
    /\ ~last.messages[2].has_attachments
    /\ last.messages[2].date.tod = 1

----------------------------------------------------------------------------
(* The life of the cache, checked under Spec *)

IsLookup == lookups' = lookups + 1

\* C9 as stated: after the first lookup no lookup reads the file again or
\* changes the cache.
C9_NoReloadAfterFirstLookup ==
    [][lookups >= 1 => (fileReads' = fileReads /\ contacts_map' = contacts_map)]_vars

\* C9, amended: the file is read at import and then by every lookup that
\* finds the cache empty, not only the first; once the cache is non-empty no
\* lookup reads the file or changes the cache.
C9_ReloadOnlyWhileEmpty ==
    [][/\ contacts_map # <<>> =>
            (fileReads' = fileReads /\ contacts_map' = contacts_map)
       /\ (fileReads' # fileReads \/ contacts_map' # contacts_map) =>
            (IsLookup /\ contacts_map = <<>> /\ fileReads' = fileReads + 1
             /\ contacts_map' = (IF file.kind = "valid" THEN file.dir ELSE <<>>))
       /\ (IsLookup /\ contacts_map = <<>> /\ file.kind # "absent") =>
            fileReads' = fileReads + 1]_vars

\* Read at import and by two lookups while malformed or empty, then loaded
\* by a third; the file has changed since and the cache has not followed
C9_Witness ==
    /\ fileReads = 3
    /\ lookups = 3
    /\ contacts_map = DirFriends
    /\ file # Valid(DirFriends)

\* C10: a malformed contacts_map.json aborts nothing and leaves the cache as
\* it was; with no directory loaded, a call made while the file is malformed
\* resolves a valid phone number and goes on to the store check and the
\* fetch, and fails with ContactNotFound for any other contact.
C10_MalformedFileDegrades ==
    /\ (file.kind = "malformed" => contacts_map = <<>>)
    /\ [][(IsLookup /\ file.kind = "malformed") =>
            /\ contacts_map' = contacts_map
            /\ last'.outcome # "DirectoryLoadFailure"
            /\ contacts_map = <<>> =>
                  IF ValidPhone(last'.contact)
                  THEN /\ last'.source = "raw"
                       /\ last'.outcome = (IF db_exists THEN "ok" ELSE "StoreUnavailable")
                       /\ db_exists =>
                             last'.identifier = format_number(parse(last'.contact))
                  ELSE last'.outcome = "ContactNotFound"]_vars

\* The file is malformed, no directory is loaded, and a phone number is
\* fetched all the same
C10_Witness ==
    /\ last.fileAtCall = "malformed"
    /\ contacts_map = <<>>
    /\ last.contact = cRawPlus
    /\ last.outcome = "ok"
    /\ Fetched
    /\ last.identifier = <<"+", "1", "2", "1", "2", "5", "5", "5", "0", "1", "0", "0">>

----------------------------------------------------------------------------
(* The exported directory, checked under SpecExport *)

NoDuplicates(list) ==
    \A i, j \in 1..Len(list) : i # j => list[i] # list[j]

\* The first row of the name that carries the phone
FirstRowWith(rows, name, phone) ==
    First({r \in 1..Len(rows) : FullName(rows[r]) = name /\ rows[r].phone = Some(phone)})

\* C11: in the exported directory an entry has a phone or an email; its
\* phones are distinct and in the order the rows first gave them; its emails
\* are distinct and lower-cased; and every phone and every email of a row
\* whose name is not empty is in the entry of that name (the email in lower
\* case).
C11_ExportedDirectory ==
    export.done =>
        LET rows == export.rows
            dir  == export.result
        IN  /\ \A k \in 1..Len(dir) :
                  /\ dir[k].phones # <<>> \/ dir[k].emails # <<>>
                  /\ NoDuplicates(dir[k].phones)
                  /\ \A i, j \in 1..Len(dir[k].phones) :
                        i < j => FirstRowWith(rows, dir[k].name, dir[k].phones[i])
                                   < FirstRowWith(rows, dir[k].name, dir[k].phones[j])
                  /\ NoDuplicates(dir[k].emails)
                  /\ \A i \in 1..Len(dir[k].emails) :
                        dir[k].emails[i] = Lower(dir[k].emails[i])
            /\ \A r \in 1..Len(rows) :
                  FullName(rows[r]) # <<>> =>
                      /\ Given(rows[r].phone) =>
                            \E k \in 1..Len(dir) :
                                /\ dir[k].name = FullName(rows[r])
                                /\ Member(dir[k].phones, rows[r].phone[1])
                      /\ Given(rows[r].email) =>
                            \E k \in 1..Len(dir) :
                                /\ dir[k].name = FullName(rows[r])
                                /\ Member(dir[k].emails, Lower(rows[r].email[1]))

\* Three rows of Ann: the second phone first, the same address in two
\* cases, the first phone twice over the run
C11_Witness ==
    /\ export.done
    /\ export.rows = << Row(Some(nAnn), None, Some(pTwo), Some(eAnnLower)),
                        Row(Some(nAnn), None, Some(pOne), Some(eAnnUpper)),
                        Row(Some(nAnn), None, Some(pOne), None) >>
    /\ export.result = << Entry(nAnn, <<pTwo, pOne>>, <<eAnnLower>>) >>

====
